---- MODULE Spec2Model ----
(***************************************************************************)
(* A model of the MultiAgent-RFP procurement pipeline:                     *)
(*   - the approval agent (budget extraction, guardrails, validate_rfp,    *)
(*     send_to_suppliers) and the e-mail service it delivers through;      *)
(*   - the LangGraph workflow of ProcurementWorkflow (classify ->          *)
(*     generate_rfp -> approve_rfp -> send_email | END).                   *)
(* Text is modelled as sequences of one-character strings, so that the     *)
(* substring tests, the regular expressions and the numeric parse of the   *)
(* approval agent are computed the way the code computes them.             *)
(* The language-model chains and the SMTP transport are external: their    *)
(* outcomes are chosen nondeterministically from small sets.               *)
(***************************************************************************)
EXTENDS Integers, Sequences, FiniteSets, TLC

VARIABLES
    pc,          \* workflow: the node about to run ("idle" outside a run, "END" after)
    state,       \* workflow: the WorkflowState snapshot handed from node to node
    request,     \* the ProcurementRequest object (its id is filled in by classify)
    rfp,         \* the RFP object: None before generate_rfp built it, else Some(record)
    trace,       \* workflow: the nodes executed so far, with the error each one found
    invoked,     \* workflow: the external capabilities invoked so far, in order
    tentative,   \* validate_rfp: the ApprovalResult built from the model's answer
    lastCall,    \* the last agent call made, what it was given and what it returned
    deliveries,  \* the transport attempts made so far, in order
    clock        \* datetime.now(): a logical clock

vars == <<pc, state, request, rfp, trace, invoked, tentative, lastCall, deliveries, clock>>

(***************************************************************************)
(* Optional values: Python's None and a present value.                     *)
(***************************************************************************)
None == <<>>
Some(x) == <<x>>
Val(v) == v[1]

(***************************************************************************)
(* Characters and strings.                                                 *)
(***************************************************************************)
Digits == {"0", "1", "2", "3", "4", "5", "6", "7", "8", "9"}
DigitsAndComma == Digits \cup {","}
Spaces == {" ", "\t", "\n", "\r", "\f"}

DigitVal(c) ==
    CASE c = "0" -> 0 [] c = "1" -> 1 [] c = "2" -> 2 [] c = "3" -> 3 [] c = "4" -> 4
      [] c = "5" -> 5 [] c = "6" -> 6 [] c = "7" -> 7 [] c = "8" -> 8 [] c = "9" -> 9

DigitChar(d) ==
    CASE d = 0 -> "0" [] d = 1 -> "1" [] d = 2 -> "2" [] d = 3 -> "3" [] d = 4 -> "4"
      [] d = 5 -> "5" [] d = 6 -> "6" [] d = 7 -> "7" [] d = 8 -> "8" [] d = 9 -> "9"

\* str.lower() on one character
Lower(c) ==
    CASE c = "A" -> "a" [] c = "B" -> "b" [] c = "C" -> "c" [] c = "D" -> "d"
      [] c = "E" -> "e" [] c = "F" -> "f" [] c = "G" -> "g" [] c = "H" -> "h"
      [] c = "I" -> "i" [] c = "J" -> "j" [] c = "K" -> "k" [] c = "L" -> "l"
      [] c = "M" -> "m" [] c = "N" -> "n" [] c = "O" -> "o" [] c = "P" -> "p"
      [] c = "Q" -> "q" [] c = "R" -> "r" [] c = "S" -> "s" [] c = "T" -> "t"
      [] c = "U" -> "u" [] c = "V" -> "v" [] c = "W" -> "w" [] c = "X" -> "x"
      [] c = "Y" -> "y" [] c = "Z" -> "z" [] OTHER -> c

\* str.lower()
LowerStr(s) == [i \in 1..Len(s) |-> Lower(s[i])]

\* Python's `needle in hay`
Contains(hay, needle) ==
    \E i \in 0..(Len(hay) - Len(needle)) : \A j \in 1..Len(needle) : hay[i + j] = needle[j]

\* the literal w occurs in s at position i
StartsAt(s, i, w) ==
    /\ i + Len(w) - 1 <= Len(s)
    /\ \A j \in 1..Len(w) : s[i + j - 1] = w[j]

\* the last position of the longest run of characters of cls that starts at j
\* (j - 1 when the run is empty): a greedy cls*
RECURSIVE RunEnd(_, _, _)
RunEnd(s, j, cls) ==
    IF j <= Len(s) /\ s[j] \in cls THEN RunEnd(s, j + 1, cls) ELSE j - 1

RECURSIVE Flatten(_)
Flatten(ss) == IF ss = <<>> THEN <<>> ELSE Head(ss) \o Flatten(Tail(ss))

(***************************************************************************)
(* Numbers: float() of a digit string, as an exact fraction num/den (den a *)
(* power of ten).  The texts of the model carry at most a few fraction     *)
(* digits, far inside what a float compares exactly.                       *)
(***************************************************************************)
RECURSIVE DigitsValue(_)
DigitsValue(ds) ==
    IF ds = <<>> THEN 0
    ELSE 10 * DigitsValue(SubSeq(ds, 1, Len(ds) - 1)) + DigitVal(ds[Len(ds)])

RECURSIVE Pow10(_)
Pow10(n) == IF n = 0 THEN 1 ELSE 10 * Pow10(n - 1)

Number(n) == [num |-> n, den |-> 1]

\* the digits of an integer part and of a fraction part as a fraction
Fraction(int, frac) == [num |-> DigitsValue(int \o frac), den |-> Pow10(Len(frac))]

\* a digit string split after its integer part, which ends at e
SplitAt(str, e) ==
    Fraction(SubSeq(str, 1, e), IF e < Len(str) THEN SubSeq(str, e + 2, Len(str)) ELSE <<>>)

\* float(str) for the shape the budget patterns can capture once the commas
\* are gone, digits* ( "." digits+ )? : None is ValueError (the empty string)
ParseFloat(str) ==
    IF str = <<>> THEN None ELSE Some(SplitAt(str, RunEnd(str, 1, Digits)))

\* a >= b for a fraction a and an integer b
AtLeast(a, b) == a.num >= b * a.den

\* a > b for a fraction a and an integer b
GreaterThan(a, b) == a.num > b * a.den

\* a = b for two fractions
SameNumber(a, b) == a.num * b.den = b.num * a.den

(***************************************************************************)
(* Configuration (config/settings.py).                                     *)
(***************************************************************************)
MAX_BUDGET == 1000000

(***************************************************************************)
(* ApprovalAgent._extract_budget: the four budget patterns, matched with   *)
(* re.IGNORECASE (here: on the lower-cased text; the captured group holds  *)
(* only digits, commas and a point, which lower-casing leaves alone).      *)
(* A match is <<first, last>>, the positions of the captured group, and    *)
(* None is no match.                                                       *)
(***************************************************************************)
KwBudget == <<"b", "u", "d", "g", "e", "t">>
KwUsd == <<"u", "s", "d">>
KwDollars == <<"d", "o", "l", "l", "a", "r", "s">>

\* the least element of a non-empty set of positions
MinOf(S) == CHOOSE x \in S : \A y \in S : x <= y

\* (?:\.\d+)? after a run of [\d,] that ends at e: the last position matched
FractionEnd(s, e) ==
    IF e + 2 <= Len(s) /\ s[e + 1] = "." /\ s[e + 2] \in Digits
    THEN RunEnd(s, e + 2, Digits)
    ELSE e

\* [\d,]+ at position j matched up to e (e < j: no character matched)
NumberEndAfter(s, j, e) == IF e < j THEN 0 ELSE FractionEnd(s, e)

\* [\d,]+(?:\.\d+)? at position j, greedy: the last position matched, 0 if none.
\* In the four patterns a shorter match never succeeds where the greedy one
\* fails: what follows the number has to be white space or a letter.
NumberEnd(s, j) == NumberEndAfter(s, j, RunEnd(s, j, DigitsAndComma))

\* a captured group from j to e, None when the number did not match (e = 0)
Group(j, e) == IF e # 0 THEN <<j, e>> ELSE None

\* ([\d,]+(?:\.\d+)?) at position j
NumberAt(s, j) == Group(j, NumberEnd(s, j))

\* \$\s*([\d,]+(?:\.\d+)?) at position i
DollarAmountAt(s, i) ==
    IF i <= Len(s) /\ s[i] = "$" THEN NumberAt(s, RunEnd(s, i + 1, Spaces) + 1) ELSE None

\* \s*(?:USD|dollars) at position k
CurrencyAt(s, k) == StartsAt(s, k, KwUsd) \/ StartsAt(s, k, KwDollars)
CurrencyAfter(s, e) == CurrencyAt(s, RunEnd(s, e + 1, Spaces) + 1)

\* the number matched at i up to e, if a currency word follows it
WithCurrency(s, i, e) == IF e # 0 /\ CurrencyAfter(s, e) THEN <<i, e>> ELSE None

\* ([\d,]+(?:\.\d+)?)\s*(?:USD|dollars) at position i
AmountCurrencyAt(s, i) == WithCurrency(s, i, NumberEnd(s, i))

\* the amount part of budget_patterns[p]: patterns 3 and 4 are "budget.*?"
\* followed by patterns 1 and 2
AmountAt(p, s, i) ==
    IF p = 1 \/ p = 3 THEN DollarAmountAt(s, i) ELSE AmountCurrencyAt(s, i)

\* the end of the line that holds position i ("." matches no line break)
LineEnd(s, i) == RunEnd(s, i, {s[k] : k \in 1..Len(s)} \ {"\n"})

\* the amount part of pattern p at the first of the positions J, None if J is empty
AmountAtFirst(p, s, J) == IF J = {} THEN None ELSE AmountAt(p, s, MinOf(J))

\* .*?<amount part of pattern p> from position `from`: the lazy .*? stops at
\* the first position of the line where the amount part matches
LazyAmountFrom(p, s, from) ==
    AmountAtFirst(p, s, {j \in from..(LineEnd(s, from) + 1) : AmountAt(p, s, j) # None})

\* budget.*?<amount part of pattern p> at position i
BudgetThenAt(p, s, i) ==
    IF StartsAt(s, i, KwBudget) THEN LazyAmountFrom(p, s, i + Len(KwBudget)) ELSE None

\* budget_patterns[p] at position i
MatchAt(p, s, i) ==
    IF p = 1 \/ p = 2 THEN AmountAt(p, s, i) ELSE BudgetThenAt(p, s, i)

NumPatterns == 4

\* the text of a captured group
GroupText(s, m) == SubSeq(s, m[1], m[2])

\* the group of the match of pattern p at the first of the positions I
MatchAtFirst(p, s, I) == IF I = {} THEN None ELSE Some(GroupText(s, MatchAt(p, s, MinOf(I))))

\* re.findall(pattern, content)[0]: the group of the leftmost match, None when
\* findall returns the empty list
FirstMatch(p, s) == MatchAtFirst(p, s, {i \in 1..Len(s) : MatchAt(p, s, i) # None})

\* str.replace(',', '')
StripCommas(str) == SelectSeq(str, LAMBDA c : c # ",")

\* float(matches[0].replace(',', '')): None when there is no match or when
\* float() raises ValueError
ParseMatch(matches) ==
    IF matches = None THEN None ELSE ParseFloat(StripCommas(Val(matches)))

\* one round of the loop over budget_patterns: the value pattern p returns,
\* None when the loop goes on to the next pattern
TryPattern(p, s) == ParseMatch(FirstMatch(p, s))

\* a loop that goes through budget_patterns from the last to the first
FirstValueReversed(P, s) ==
    IF P = {} THEN Number(0) ELSE Val(TryPattern(CHOOSE p \in P : \A q \in P : q <= p, s))

\* the value of the first of the patterns P, 0.0 when P is empty
FirstValue(P, s) == IF P = {} THEN Number(0) ELSE Val(TryPattern(MinOf(P), s))

\* the loop over budget_patterns: the first pattern that returns a value
ExtractBudgetFrom(s) == FirstValue({p \in 1..NumPatterns : TryPattern(p, s) # None}, s)

_extract_budget(rfp_content) == ExtractBudgetFrom(LowerStr(rfp_content))

(***************************************************************************)
(* ApprovalAgent._apply_guardrails.                                        *)
(* An issue is [text, arg]: the fixed text and the formatted argument.     *)
(***************************************************************************)
SecOverview ==
    <<"O", "v", "e", "r", "v", "i", "e", "w">>
SecRequirements ==
    <<"R", "e", "q", "u", "i", "r", "e", "m", "e", "n", "t", "s">>
SecTimeline ==
    <<"T", "i", "m", "e", "l", "i", "n", "e">>
SecBudget ==
    <<"B", "u", "d", "g", "e", "t">>

essential_sections ==
    << [name |-> "Overview", chars |-> SecOverview],
       [name |-> "Requirements", chars |-> SecRequirements],
       [name |-> "Timeline", chars |-> SecTimeline],
       [name |-> "Budget", chars |-> SecBudget] >>

\* the decimal digits of n >= 0
RECURSIVE DigitsOf(_)
DigitsOf(n) ==
    IF n < 10 THEN <<DigitChar(n)>> ELSE DigitsOf(n \div 10) \o <<DigitChar(n % 10)>>

\* f"{n:,}" for an integer n >= 0
RECURSIVE GroupThousands(_)
GroupThousands(n) ==
    IF n < 1000 THEN DigitsOf(n)
    ELSE GroupThousands(n \div 1000) \o <<",">>
           \o SubSeq(DigitsOf(1000 + (n % 1000)), 2, 4)

\* f"{n:,.2f}" for an integer n >= 0
FormatMoney(n) == GroupThousands(n) \o <<".", "0", "0">>

BudgetIssue ==
    [text |-> "Budget exceeds maximum allowed threshold of $", arg |-> FormatMoney(MAX_BUDGET)]
MissingIssue(section) == [text |-> "Missing essential section: ", arg |-> section.chars]
ModelIssue(t) == [text |-> t, arg |-> <<>>]

\* the sections of essential_sections that the lower-cased content lacks
MissingIn(low) ==
    SelectSeq(essential_sections, LAMBDA sec : ~Contains(low, LowerStr(sec.chars)))

\* the section test without .lower() on the content
MissingSectionsCaseSensitive(content) == MissingIn(content)

\* the sections of essential_sections that the content lacks, in list order
MissingSections(content) == MissingIn(LowerStr(content))

\* the guardrail issues: the budget issue if the budget is over the cap,
\* then one issue for each missing section
GuardrailIssues(over, missing) ==
    (IF over THEN <<BudgetIssue>> ELSE <<>>)
        \o [i \in 1..Len(missing) |-> MissingIssue(missing[i])]

\* guardrails that put their issues in front of the model's
GuardedPrepending(approval_result, over, missing) ==
    [approval_result EXCEPT
        !.approved = IF over \/ Len(missing) > 0 THEN FALSE ELSE @,
        !.issues = GuardrailIssues(over, missing) \o @]

\* guardrails that flip the verdict when they fire
GuardedToggling(approval_result, over, missing) ==
    [approval_result EXCEPT
        !.approved = IF over \/ Len(missing) > 0 THEN ~@ ELSE @,
        !.issues = @ \o GuardrailIssues(over, missing)]

\* guardrails that decide the verdict by themselves, whatever the model said
GuardedRelaxing(approval_result, over, missing) ==
    [approval_result EXCEPT
        !.approved = ~(over \/ Len(missing) > 0),
        !.issues = @ \o GuardrailIssues(over, missing)]

Guarded(approval_result, over, missing) ==
    [approval_result EXCEPT
        !.approved = IF over \/ Len(missing) > 0 THEN FALSE ELSE @,
        !.issues = @ \o GuardrailIssues(over, missing)]

\* guardrails that skip the budget check
GuardrailsWithoutBudget(rfpObj, approval_result) ==
    Guarded(approval_result, FALSE, MissingSections(rfpObj.content))

_apply_guardrails(rfpObj, approval_result) ==
    Guarded(approval_result,
            GreaterThan(_extract_budget(rfpObj.content), MAX_BUDGET),
            MissingSections(rfpObj.content))

(***************************************************************************)
(* The RFP object (models/rfp.py) as RFPGenerationAgent.generate_rfp       *)
(* builds it: status PENDING_APPROVAL, every field it does not pass at its *)
(* default (no suppliers, no feedback, no dates).                          *)
(***************************************************************************)
DRAFT == "draft"
PENDING_APPROVAL == "pending_approval"
APPROVED == "approved"
REJECTED == "rejected"
SENT == "sent"
CANCELLED == "cancelled"
RFPStatus == {DRAFT, PENDING_APPROVAL, APPROVED, REJECTED, SENT, CANCELLED}

\* an RFP built with one supplier on its list
NewRFPWithSupplier(id, request_id, category, content) ==
    [ id |-> id, request_id |-> request_id, category |-> category, content |-> content,
      status |-> PENDING_APPROVAL, suppliers |-> <<1>>,
      approval_feedback |-> None, approval_date |-> None, sent_date |-> None ]

NewRFP(id, request_id, category, content) ==
    [ id |-> id, request_id |-> request_id, category |-> category, content |-> content,
      status |-> PENDING_APPROVAL, suppliers |-> <<>>,
      approval_feedback |-> None, approval_date |-> None, sent_date |-> None ]

(***************************************************************************)
(* ApprovalAgent.validate_rfp.  `review` is what the review chain does:    *)
(* it raises, or it returns a JSON object holding the keys `keys`.         *)
(* The result is [raised, error, rfp, tentative, result]: whether the call *)
(* raised (and str(e)), the RFP object after the call, the ApprovalResult  *)
(* built from the model's answer and the one returned.                     *)
(***************************************************************************)
ReviewKeys == {"approved", "feedback", "issues"}

\* a failing validate_rfp that marks the RFP as rejected before it raises
ValidateRaisesRejecting(rfpObj, msg) ==
    [ raised |-> TRUE, error |-> msg, rfp |-> [rfpObj EXCEPT !.status = REJECTED],
      tentative |-> None, result |-> None ]

ValidateRaises(rfpObj, msg) ==
    [raised |-> TRUE, error |-> msg, rfp |-> rfpObj, tentative |-> None, result |-> None]

\* the model's answer as an ApprovalResult
TentativeResult(rfpObj, review) ==
    [ rfp_id |-> rfpObj.id, approved |-> review.approved, feedback |-> review.feedback,
      issues |-> IF "issues" \in review.keys THEN review.issues ELSE <<>> ]

\* a status update that does not stamp approval_date
StampedWithoutDate(rfpObj, final, now) ==
    IF final.approved
    THEN [rfpObj EXCEPT !.status = APPROVED, !.approval_feedback = Some(final.feedback)]
    ELSE [rfpObj EXCEPT !.status = REJECTED, !.approval_feedback = Some(final.feedback)]

\* a status update without the else branch
StampedKeepingStatus(rfpObj, final, now) ==
    IF final.approved
    THEN [rfpObj EXCEPT !.status = APPROVED, !.approval_date = Some(now),
                        !.approval_feedback = Some(final.feedback)]
    ELSE [rfpObj EXCEPT !.approval_feedback = Some(final.feedback)]

\* the status update that follows the guardrails
Stamped(rfpObj, final, now) ==
    IF final.approved
    THEN [rfpObj EXCEPT !.status = APPROVED, !.approval_date = Some(now),
                        !.approval_feedback = Some(final.feedback)]
    ELSE [rfpObj EXCEPT !.status = REJECTED, !.approval_feedback = Some(final.feedback)]

ValidateReturns(rfpObj, approval_result, final, now) ==
    [ raised |-> FALSE, error |-> "", rfp |-> Stamped(rfpObj, final, now),
      tentative |-> Some(approval_result), result |-> Some(final) ]

Reviewed(rfpObj, approval_result, now) ==
    ValidateReturns(rfpObj, approval_result, _apply_guardrails(rfpObj, approval_result), now)

validate_rfp(rfpObj, review, now) ==
    IF review.kind = "raise" THEN ValidateRaises(rfpObj, review.error)
    ELSE IF "approved" \notin review.keys THEN ValidateRaises(rfpObj, "'approved'")
    ELSE IF "feedback" \notin review.keys THEN ValidateRaises(rfpObj, "'feedback'")
    ELSE Reviewed(rfpObj, TentativeResult(rfpObj, review), now)

(***************************************************************************)
(* EmailService.send_rfp.  outcomes[i] is what happens for suppliers[i]:   *)
(* "sent" (_send_email returns True), "refused" (it returns False: the     *)
(* SMTP error is caught inside) or "raise" (building the message raises).  *)
(* The result is [success, attempts], the attempts in the order made.      *)
(***************************************************************************)
DeliveryOutcomes == {"sent", "refused", "raise"}

\* one attempt, put before the attempts that follow it
Attempted(supplier, outcome, rest) ==
    [ success |-> rest.success,
      attempts |-> <<[to |-> supplier, outcome |-> outcome]>> \o rest.attempts ]

\* a loop that stops at the first supplier whose delivery fails
RECURSIVE SendLoopAborting(_, _, _, _)
SendLoopAborting(suppliers, outcomes, i, success) ==
    IF i > Len(suppliers) THEN [success |-> success, attempts |-> <<>>]
    ELSE IF outcomes[i] # "sent"
    THEN [success |-> FALSE, attempts |-> <<[to |-> suppliers[i], outcome |-> outcomes[i]]>>]
    ELSE Attempted(suppliers[i], outcomes[i],
                   SendLoopAborting(suppliers, outcomes, i + 1, success))

\* the for loop from supplier i on, with `success` as it stands
RECURSIVE SendLoop(_, _, _, _)
SendLoop(suppliers, outcomes, i, success) ==
    IF i > Len(suppliers) THEN [success |-> success, attempts |-> <<>>]
    ELSE Attempted(suppliers[i], outcomes[i],
                   SendLoop(suppliers, outcomes, i + 1,
                            IF outcomes[i] = "sent" THEN success ELSE FALSE))

send_rfp(rfpObj, outcomes) ==
    IF rfpObj.suppliers = <<>> THEN [success |-> FALSE, attempts |-> <<>>]
    ELSE SendLoop(rfpObj.suppliers, outcomes, 1, TRUE)

(***************************************************************************)
(* ApprovalAgent.send_to_suppliers: [success, rfp, attempts].              *)
(***************************************************************************)
\* a status update that does not look at the outcome of the delivery
DeliveredRegardless(rfpObj, sent, now) ==
    [ success |-> sent.success,
      rfp |-> [rfpObj EXCEPT !.status = SENT, !.sent_date = Some(now)],
      attempts |-> sent.attempts ]

Delivered(rfpObj, sent, now) ==
    [ success |-> sent.success,
      rfp |-> IF sent.success
              THEN [rfpObj EXCEPT !.status = SENT, !.sent_date = Some(now)]
              ELSE rfpObj,
      attempts |-> sent.attempts ]

\* send_to_suppliers without the status check
SendWithoutStatusCheck(rfpObj, outcomes, now) ==
    Delivered(rfpObj, send_rfp(rfpObj, outcomes), now)

send_to_suppliers(rfpObj, outcomes, now) ==
    IF rfpObj.status # APPROVED
    THEN [success |-> FALSE, rfp |-> rfpObj, attempts |-> <<>>]
    ELSE Delivered(rfpObj, send_rfp(rfpObj, outcomes), now)

(***************************************************************************)
(* What the external parties may do.                                       *)
(***************************************************************************)
Feedbacks == {"Looks complete", "Needs revision"}
IssueLists == {<<>>, <<ModelIssue("Scope is vague")>>}

Reviews ==
    {[kind |-> "raise", error |-> "review model unavailable", keys |-> {},
      approved |-> FALSE, feedback |-> "", issues |-> <<>>]}
    \cup
    {[kind |-> "json", error |-> "", keys |-> k, approved |-> a, feedback |-> f, issues |-> i] :
        k \in {ReviewKeys}, a \in BOOLEAN, f \in Feedbacks, i \in IssueLists}
    \cup
    {[kind |-> "json", error |-> "", keys |-> k, approved |-> TRUE, feedback |-> "Looks complete",
      issues |-> <<>>] : k \in {{"approved", "feedback"}, {"feedback", "issues"}, {"approved"}}}

\* supplier lists: n suppliers, told apart by their e-mail address
MaxSuppliers == 2
SupplierLists == {[i \in 1..n |-> i] : n \in 0..MaxSuppliers}

(***************************************************************************)
(* Texts.                                                                  *)
(***************************************************************************)
HeadOverview ==
    <<"#", "#", " ", "P", "r", "o", "j", "e", "c", "t", " ", "O", "v", "e", "r", "v", "i", "e",
      "w", "\n">>
HeadRequirements ==
    <<"#", "#", " ", "R", "E", "Q", "U", "I", "R", "E", "M", "E", "N", "T", "S", "\n">>
HeadTimeline ==
    <<"#", "#", " ", "d", "e", "l", "i", "v", "e", "r", "y", " ", "t", "i", "m", "e", "l", "i",
      "n", "e", "\n">>
HeadBudget ==
    <<"#", "#", " ", "B", "u", "d", "g", "e", "t", "\n">>
MoneySmall ==
    <<"$", " ", "5", "0", "0", " ">>
MoneyLarge ==
    <<"$", "1", ",", "2", "5", "0", ",", "0", "0", "0", ".", "5", "0", " ">>
MoneyAtCap ==
    <<"1", "0", "0", "0", "0", "0", "0", " ", "U", "S", "D", " ">>
MoneyDollars ==
    <<"2", ",", "0", "0", "0", ",", "0", "0", "0", " ", "D", "o", "l", "l", "a", "r", "s",
      "\n">>
MoneyNoDigits ==
    <<"$", ",", " ">>
MoneyBudgetWord ==
    <<"b", "u", "d", "g", "e", "t", " ">>

HeadingOf(name) ==
    CASE name = "Overview" -> HeadOverview
      [] name = "Requirements" -> HeadRequirements
      [] name = "Timeline" -> HeadTimeline
      [] name = "Budget" -> HeadBudget

\* the headings of the sections in S, in the order of essential_sections
Headings(S) ==
    Flatten([i \in 1..Len(essential_sections) |->
                IF essential_sections[i].name \in S
                THEN HeadingOf(essential_sections[i].name) ELSE <<>>])

SectionNames == {essential_sections[i].name : i \in 1..Len(essential_sections)}

MoneyFragments == {MoneySmall, MoneyLarge, MoneyAtCap, MoneyDollars, MoneyNoDigits, MoneyBudgetWord}

\* the sequences of at most n elements of S
RECURSIVE SeqsUpTo(_, _)
SeqsUpTo(S, n) ==
    IF n = 0 THEN {<<>>}
    ELSE LET shorter == SeqsUpTo(S, n - 1)
         IN  shorter \cup {Append(s, x) : s \in shorter, x \in S}

\* the RFP texts the guardrails are run on: any of the four headings, then
\* at most MaxMoney money fragments
MaxMoney == 2
Contents == {Headings(S) \o Flatten(m) : S \in SUBSET SectionNames, m \in SeqsUpTo(MoneyFragments, MaxMoney)}

(***************************************************************************)
(* RFP_TEMPLATES (config/settings.py): a template is its literal pieces,   *)
(* each followed by the placeholder that ends it ("" after the last one).  *)
(***************************************************************************)
TemplateSoftware ==
    <<
      [ field |-> "project_overview", lit |->
          <<"\n", "#", " ", "R", "E", "Q", "U", "E", "S", "T", " ", "F", "O", "R", " ", "P",
            "R", "O", "P", "O", "S", "A", "L", ":", " ", "S", "O", "F", "T", "W", "A", "R",
            "E", " ", "P", "R", "O", "C", "U", "R", "E", "M", "E", "N", "T", "\n", "#", "#",
            " ", "P", "r", "o", "j", "e", "c", "t", " ", "O", "v", "e", "r", "v", "i", "e",
            "w", "\n">> ],
      [ field |-> "requirements", lit |->
          <<"\n", "\n", "#", "#", " ", "R", "e", "q", "u", "i", "r", "e", "m", "e", "n", "t",
            "s", "\n">> ],
      [ field |-> "timeline", lit |->
          <<"\n", "\n", "#", "#", " ", "T", "i", "m", "e", "l", "i", "n", "e", "\n">> ],
      [ field |-> "budget", lit |->
          <<"\n", "\n", "#", "#", " ", "B", "u", "d", "g", "e", "t", "\n">> ],
      [ field |-> "evaluation_criteria", lit |->
          <<"\n", "\n", "#", "#", " ", "E", "v", "a", "l", "u", "a", "t", "i", "o", "n", " ",
            "C", "r", "i", "t", "e", "r", "i", "a", "\n">> ],
      [ field |-> "submission_instructions", lit |->
          <<"\n", "\n", "#", "#", " ", "S", "u", "b", "m", "i", "s", "s", "i", "o", "n", " ",
            "I", "n", "s", "t", "r", "u", "c", "t", "i", "o", "n", "s", "\n">> ],
      [ field |-> "", lit |->
          <<"\n", " ", " ", " ", " ">> ]
    >>

TemplateHardware ==
    <<
      [ field |-> "project_overview", lit |->
          <<"\n", "#", " ", "R", "E", "Q", "U", "E", "S", "T", " ", "F", "O", "R", " ", "P",
            "R", "O", "P", "O", "S", "A", "L", ":", " ", "H", "A", "R", "D", "W", "A", "R",
            "E", " ", "P", "R", "O", "C", "U", "R", "E", "M", "E", "N", "T", "\n", "#", "#",
            " ", "P", "r", "o", "j", "e", "c", "t", " ", "O", "v", "e", "r", "v", "i", "e",
            "w", "\n">> ],
      [ field |-> "requirements", lit |->
          <<"\n", "\n", "#", "#", " ", "T", "e", "c", "h", "n", "i", "c", "a", "l", " ", "S",
            "p", "e", "c", "i", "f", "i", "c", "a", "t", "i", "o", "n", "s", "\n">> ],
      [ field |-> "quantity", lit |->
          <<"\n", "\n", "#", "#", " ", "Q", "u", "a", "n", "t", "i", "t", "y", "\n">> ],
      [ field |-> "timeline", lit |->
          <<"\n", "\n", "#", "#", " ", "D", "e", "l", "i", "v", "e", "r", "y", " ", "T", "i",
            "m", "e", "l", "i", "n", "e", "\n">> ],
      [ field |-> "budget", lit |->
          <<"\n", "\n", "#", "#", " ", "B", "u", "d", "g", "e", "t", "\n">> ],
      [ field |-> "warranty", lit |->
          <<"\n", "\n", "#", "#", " ", "W", "a", "r", "r", "a", "n", "t", "y", " ", "R", "e",
            "q", "u", "i", "r", "e", "m", "e", "n", "t", "s", "\n">> ],
      [ field |-> "submission_instructions", lit |->
          <<"\n", "\n", "#", "#", " ", "S", "u", "b", "m", "i", "s", "s", "i", "o", "n", " ",
            "I", "n", "s", "t", "r", "u", "c", "t", "i", "o", "n", "s", "\n">> ],
      [ field |-> "", lit |->
          <<"\n", " ", " ", " ", " ">> ]
    >>

TemplateServices ==
    <<
      [ field |-> "project_overview", lit |->
          <<"\n", "#", " ", "R", "E", "Q", "U", "E", "S", "T", " ", "F", "O", "R", " ", "P",
            "R", "O", "P", "O", "S", "A", "L", ":", " ", "S", "E", "R", "V", "I", "C", "E",
            "S", " ", "P", "R", "O", "C", "U", "R", "E", "M", "E", "N", "T", "\n", "#", "#",
            " ", "S", "e", "r", "v", "i", "c", "e", " ", "O", "v", "e", "r", "v", "i", "e",
            "w", "\n">> ],
      [ field |-> "requirements", lit |->
          <<"\n", "\n", "#", "#", " ", "S", "c", "o", "p", "e", " ", "o", "f", " ", "W", "o",
            "r", "k", "\n">> ],
      [ field |-> "sla", lit |->
          <<"\n", "\n", "#", "#", " ", "S", "e", "r", "v", "i", "c", "e", " ", "L", "e", "v",
            "e", "l", " ", "R", "e", "q", "u", "i", "r", "e", "m", "e", "n", "t", "s", "\n">> ],
      [ field |-> "timeline", lit |->
          <<"\n", "\n", "#", "#", " ", "T", "i", "m", "e", "l", "i", "n", "e", "\n">> ],
      [ field |-> "budget", lit |->
          <<"\n", "\n", "#", "#", " ", "B", "u", "d", "g", "e", "t", "\n">> ],
      [ field |-> "evaluation_criteria", lit |->
          <<"\n", "\n", "#", "#", " ", "E", "v", "a", "l", "u", "a", "t", "i", "o", "n", " ",
            "C", "r", "i", "t", "e", "r", "i", "a", "\n">> ],
      [ field |-> "submission_instructions", lit |->
          <<"\n", "\n", "#", "#", " ", "S", "u", "b", "m", "i", "s", "s", "i", "o", "n", " ",
            "I", "n", "s", "t", "r", "u", "c", "t", "i", "o", "n", "s", "\n">> ],
      [ field |-> "", lit |->
          <<"\n", " ", " ", " ", " ">> ]
    >>

TemplateRawMaterials ==
    <<
      [ field |-> "project_overview", lit |->
          <<"\n", "#", " ", "R", "E", "Q", "U", "E", "S", "T", " ", "F", "O", "R", " ", "P",
            "R", "O", "P", "O", "S", "A", "L", ":", " ", "R", "A", "W", " ", "M", "A", "T",
            "E", "R", "I", "A", "L", "S", " ", "P", "R", "O", "C", "U", "R", "E", "M", "E",
            "N", "T", "\n", "#", "#", " ", "M", "a", "t", "e", "r", "i", "a", "l", " ", "O",
            "v", "e", "r", "v", "i", "e", "w", "\n">> ],
      [ field |-> "requirements", lit |->
          <<"\n", "\n", "#", "#", " ", "M", "a", "t", "e", "r", "i", "a", "l", " ", "S", "p",
            "e", "c", "i", "f", "i", "c", "a", "t", "i", "o", "n", "s", "\n">> ],
      [ field |-> "quantity", lit |->
          <<"\n", "\n", "#", "#", " ", "Q", "u", "a", "n", "t", "i", "t", "y", "\n">> ],
      [ field |-> "quality", lit |->
          <<"\n", "\n", "#", "#", " ", "Q", "u", "a", "l", "i", "t", "y", " ", "S", "t", "a",
            "n", "d", "a", "r", "d", "s", "\n">> ],
      [ field |-> "timeline", lit |->
          <<"\n", "\n", "#", "#", " ", "D", "e", "l", "i", "v", "e", "r", "y", " ", "T", "i",
            "m", "e", "l", "i", "n", "e", "\n">> ],
      [ field |-> "budget", lit |->
          <<"\n", "\n", "#", "#", " ", "B", "u", "d", "g", "e", "t", "\n">> ],
      [ field |-> "submission_instructions", lit |->
          <<"\n", "\n", "#", "#", " ", "S", "u", "b", "m", "i", "s", "s", "i", "o", "n", " ",
            "I", "n", "s", "t", "r", "u", "c", "t", "i", "o", "n", "s", "\n">> ],
      [ field |-> "", lit |->
          <<"\n", " ", " ", " ", " ">> ]
    >>

PROCUREMENT_CATEGORIES == {"Software", "Hardware", "Services", "Raw Materials"}

\* a lookup that falls back to the Software template
TemplateForDefaultSoftware(category) ==
    CASE category = "Hardware" -> TemplateHardware
      [] category = "Services" -> TemplateServices
      [] category = "Raw Materials" -> TemplateRawMaterials
      [] OTHER -> TemplateSoftware

\* RFP_TEMPLATES.get(category, RFP_TEMPLATES["Services"])
TemplateFor(category) ==
    CASE category = "Software" -> TemplateSoftware
      [] category = "Hardware" -> TemplateHardware
      [] category = "Services" -> TemplateServices
      [] category = "Raw Materials" -> TemplateRawMaterials
      [] OTHER -> TemplateServices

TemplateKeys ==
    { "project_overview", "requirements", "timeline", "budget", "evaluation_criteria",
      "submission_instructions", "quantity", "warranty", "sla", "quality" }

\* defaults that put a filler text in place of a key the drafter left out
WithDefaultsFilled(json) == [k \in TemplateKeys |-> IF k \in DOMAIN json THEN json[k] ELSE <<"T", "B", "D">>]

\* the loop that gives every key the drafter left out the value ""
WithDefaults(json) == [k \in TemplateKeys |-> IF k \in DOMAIN json THEN json[k] ELSE <<>>]

\* one literal piece and the value of its placeholder
Piece(part, fields) == part.lit \o (IF part.field = "" THEN <<>> ELSE fields[part.field])

\* template.format(**fields)
Format(template, fields) == Flatten([i \in 1..Len(template) |-> Piece(template[i], fields)])

(***************************************************************************)
(* ClassificationAgent.classify.  `answer` is what the classification      *)
(* chain does: it raises, or it returns a JSON object holding `keys`.      *)
(* The result is [raised, error, request, classification]; the request id  *)
(* is filled in before the chain is called.                                *)
(***************************************************************************)
ClassificationKeys == {"category", "confidence", "reasoning"}

WithId(req) == IF req.id = None THEN [req EXCEPT !.id = Some("generated-uuid")] ELSE req

ClassifyRaises(req, msg) ==
    [raised |-> TRUE, error |-> msg, request |-> req, classification |-> None]

ClassifyReturns(req, answer) ==
    [ raised |-> FALSE, error |-> "", request |-> req,
      classification |-> Some([ request_id |-> Val(req.id), category |-> answer.category,
                                confidence |-> answer.confidence,
                                reasoning |-> answer.reasoning ]) ]

\* classify once the request has its id
ClassifyWithId(req, answer) ==
    IF answer.kind = "raise" THEN ClassifyRaises(req, answer.error)
    ELSE IF "category" \notin answer.keys THEN ClassifyRaises(req, "'category'")
    ELSE IF "confidence" \notin answer.keys THEN ClassifyRaises(req, "'confidence'")
    ELSE IF "reasoning" \notin answer.keys THEN ClassifyRaises(req, "'reasoning'")
    ELSE ClassifyReturns(req, answer)

classify(req, answer) == ClassifyWithId(WithId(req), answer)

(***************************************************************************)
(* RFPGenerationAgent.generate_rfp.  `draft` is what the drafting chain    *)
(* does: it raises, or it returns a JSON object `json` (a function from    *)
(* the keys it holds to their texts).  The result is [raised, error, rfp]. *)
(***************************************************************************)
GenerateReturns(content, req, classification) ==
    [ raised |-> FALSE, error |-> "",
      rfp |-> Some(NewRFP("rfp-uuid", Val(req.id), classification.category, content)) ]

generate_rfp(req, classification, draft) ==
    IF draft.kind = "raise" THEN [raised |-> TRUE, error |-> draft.error, rfp |-> None]
    ELSE GenerateReturns(Format(TemplateFor(classification.category), WithDefaults(draft.json)),
                         req, classification)

(***************************************************************************)
(* The agent on its own: an RFP as generate_rfp built it, and any sequence *)
(* of validate_rfp and send_to_suppliers calls on it, with the suppliers   *)
(* assigned the way the UI assigns them (rfp.suppliers = [...]).           *)
(***************************************************************************)
NoCall == [op |-> "none", raised |-> FALSE, success |-> FALSE, result |-> None, before |-> None]

WorkflowIdle ==
    /\ pc = "idle"
    /\ state = None
    /\ request = None
    /\ trace = <<>>
    /\ invoked = <<>>

ContentComplete == Headings(SectionNames) \o MoneySmall
ContentOverBudget == Headings(SectionNames) \o MoneyLarge
ContentNoTimeline == Headings(SectionNames \ {"Timeline"}) \o MoneySmall
AgentContents == {ContentComplete, ContentOverBudget, ContentNoTimeline}

\* the number of agent calls a run makes
MaxCalls == 3

AgentInit ==
    /\ WorkflowIdle
    /\ \E content \in AgentContents : rfp = Some(NewRFP("rfp-1", "req-1", "Software", content))
    /\ tentative = None
    /\ lastCall = NoCall
    /\ deliveries = <<>>
    /\ clock = 0

\* app.py: result["rfp"].suppliers = [supplier]
AssignSuppliers ==
    /\ Val(rfp).suppliers = <<>>
    /\ \E l \in SupplierLists \ {<<>>} : rfp' = Some([Val(rfp) EXCEPT !.suppliers = l])
    /\ UNCHANGED <<pc, state, request, trace, invoked, tentative, lastCall, deliveries, clock>>

\* a validate_rfp call that ended as r
ValidateCalled(r) ==
    /\ rfp' = Some(r.rfp)
    /\ tentative' = r.tentative
    /\ lastCall' = [ op |-> "validate_rfp", raised |-> r.raised, success |-> FALSE,
                     result |-> r.result, before |-> rfp ]

CallValidate ==
    /\ \E review \in Reviews : ValidateCalled(validate_rfp(Val(rfp), review, clock + 1))
    /\ clock' = clock + 1
    /\ UNCHANGED <<pc, state, request, trace, invoked, deliveries>>

\* a send_to_suppliers call that ended as r
SendCalled(r) ==
    /\ rfp' = Some(r.rfp)
    /\ deliveries' = deliveries \o r.attempts
    /\ lastCall' = [ op |-> "send_to_suppliers", raised |-> FALSE, success |-> r.success,
                     result |-> None, before |-> rfp ]

CallSend ==
    /\ \E outcomes \in [1..Len(Val(rfp).suppliers) -> DeliveryOutcomes] :
          SendCalled(send_to_suppliers(Val(rfp), outcomes, clock + 1))
    /\ clock' = clock + 1
    /\ UNCHANGED <<pc, state, request, trace, invoked, tentative>>

AgentValidate == clock < MaxCalls /\ CallValidate
AgentSend == clock < MaxCalls /\ CallSend

AgentNext == AssignSuppliers \/ AgentValidate \/ AgentSend

SpecAgent == AgentInit /\ [][AgentNext]_vars

(***************************************************************************)
(* The approval step as a function of the RFP text: one validate_rfp call  *)
(* on an RFP whose content is any text of Contents.                        *)
(***************************************************************************)
GuardInit ==
    /\ WorkflowIdle
    /\ \E content \in Contents : rfp = Some(NewRFP("rfp-1", "req-1", "Software", content))
    /\ tentative = None
    /\ lastCall = NoCall
    /\ deliveries = <<>>
    /\ clock = 0

GuardValidate == clock = 0 /\ CallValidate

GuardNext == GuardValidate

SpecGuard == GuardInit /\ [][GuardNext]_vars

(***************************************************************************)
(* ProcurementWorkflow: the graph of _build_workflow and its nodes.        *)
(* A status or an error message is the sequence of the pieces its f-string *)
(* puts together.                                                          *)
(***************************************************************************)
CLASSIFY == "classify"
GENERATE_RFP == "generate_rfp"
APPROVE_RFP == "approve_rfp"
SEND_EMAIL == "send_email"
ERROR_HANDLER == "error_handler"
END == "END"
Nodes == {CLASSIFY, GENERATE_RFP, APPROVE_RFP, SEND_EMAIL, ERROR_HANDLER}

EntryPoint == CLASSIFY

\* the mapping of add_conditional_edges
ConditionalEdges(route) ==
    CASE route = "approved" -> SEND_EMAIL
      [] route = "rejected" -> END

\* a router that takes a missing approval for an approval
RouteAbsentApproved(st) ==
    IF st.approval = None THEN "approved"
    ELSE IF Val(st.approval).approved THEN "approved" ELSE "rejected"

\* a router that ignores the verdict
RouteAlwaysApproved(st) == "approved"

_route_after_approval(st) ==
    IF st.approval = None THEN "rejected"
    ELSE IF Val(st.approval).approved THEN "approved" ELSE "rejected"

\* a graph that goes back to GENERATE_RFP when the RFP is not approved
SuccessorRetrying(node, st) ==
    CASE node = CLASSIFY -> GENERATE_RFP
      [] node = GENERATE_RFP -> APPROVE_RFP
      [] node = APPROVE_RFP ->
            IF _route_after_approval(st) = "approved" THEN SEND_EMAIL ELSE GENERATE_RFP
      [] node = SEND_EMAIL -> END
      [] node = ERROR_HANDLER -> END

\* a graph with an edge from every node to ERROR_HANDLER for a state that holds an error
SuccessorOnError(node, st) ==
    IF st.error # None /\ node # ERROR_HANDLER THEN ERROR_HANDLER
    ELSE CASE node = CLASSIFY -> GENERATE_RFP
           [] node = GENERATE_RFP -> APPROVE_RFP
           [] node = APPROVE_RFP -> ConditionalEdges(_route_after_approval(st))
           [] node = SEND_EMAIL -> END
           [] node = ERROR_HANDLER -> END

\* the node the graph runs after `node` returned the state st
Successor(node, st) ==
    CASE node = CLASSIFY -> GENERATE_RFP
      [] node = GENERATE_RFP -> APPROVE_RFP
      [] node = APPROVE_RFP -> ConditionalEdges(_route_after_approval(st))
      [] node = SEND_EMAIL -> END
      [] node = ERROR_HANDLER -> END

\* execute: initial_state
initial_state ==
    [ request |-> "request", classification |-> None, rfp |-> None, approval |-> None,
      email_sent |-> FALSE, error |-> None, status |-> <<"Started procurement workflow">> ]

\* a failure return that also drops the classification
FailedDroppingClassification(st, error, status) ==
    [st EXCEPT !.error = Some(error), !.status = status, !.classification = None]

\* a failure return that leaves out the "error" key
FailedStatusOnly(st, error, status) == [st EXCEPT !.status = status]

\* {**state, "error": ..., "status": ...}
Failed(st, error, status) == [st EXCEPT !.error = Some(error), !.status = status]

\* a _classify_request that falls back to a default category when classify raises
ClassifyRequestDefaulting(st, r) ==
    IF r.raised
    THEN [st EXCEPT !.classification =
                        Some([ request_id |-> Val(r.request.id), category |-> "Services",
                               confidence |-> "0.00", reasoning |-> "default category" ]),
                    !.status = <<"Classified as ", "Services", " with ", "0.00", " confidence">>]
    ELSE [st EXCEPT !.classification = r.classification,
                    !.status = << "Classified as ", Val(r.classification).category, " with ",
                                  Val(r.classification).confidence, " confidence" >>]

\* _classify_request, given what classify did
ClassifyRequest(st, r) ==
    IF r.raised
    THEN Failed(st, <<"Classification error: ", r.error>>, <<"Error during classification">>)
    ELSE IF r.classification = None
    THEN \* the print of classification.category raises inside the inner try
         Failed(st, <<"Classification error: ", "'NoneType' object has no attribute 'category'">>,
                <<"Error during classification">>)
    ELSE [st EXCEPT !.classification = r.classification,
                    !.status = << "Classified as ", Val(r.classification).category, " with ",
                                  Val(r.classification).confidence, " confidence" >>]

\* a _generate_rfp that returns the state as it is when the classification is missing
GenerateSkipped(st) == st

\* _generate_rfp when the state holds no classification
GenerateWithoutClassification(st) ==
    Failed(st, <<"No classification result available">>, <<"Error: Classification failed">>)

\* _generate_rfp, given what generate_rfp did
GenerateRfp(st, r) ==
    IF r.raised
    THEN Failed(st, <<"RFP generation error: ", r.error>>, <<"Error during RFP generation">>)
    ELSE IF r.rfp = None
    THEN \* the print of rfp.id raises inside the inner try
         Failed(st, <<"RFP generation error: ", "'NoneType' object has no attribute 'id'">>,
                <<"Error during RFP generation">>)
    ELSE [st EXCEPT !.rfp = Some(Val(r.rfp).id),
                    !.status = <<"RFP generated for ", Val(st.classification).category>>]

\* an _approve_rfp that answers a missing RFP with a rejection
ApproveWithoutRfpRejecting(st) ==
    [st EXCEPT !.approval = Some([ rfp_id |-> "", approved |-> FALSE,
                                   feedback |-> "No RFP to validate", issues |-> <<>> ]),
               !.status = <<"RFP rejected: ", "No RFP to validate">>]

\* _approve_rfp when the state holds no RFP
ApproveWithoutRfp(st) == Failed(st, <<"No RFP to validate">>, <<"Error: No RFP to validate">>)

\* _approve_rfp, given what validate_rfp did
ApproveRfp(st, r) ==
    IF r.raised
    THEN Failed(st, <<"Approval error: ", r.error>>, <<"Error during RFP approval">>)
    ELSE [st EXCEPT !.approval = r.result,
                    !.status = IF Val(r.result).approved
                               THEN <<"RFP approved">>
                               ELSE <<"RFP rejected: ", Val(r.result).feedback>>]

\* _send_email when the state holds no RFP: rfp.suppliers raises
SendWithoutRfp(st) ==
    [ Failed(st, <<"Email sending error: ", "'NoneType' object has no attribute 'suppliers'">>,
             <<"Error during email sending">>) EXCEPT !.email_sent = FALSE ]

\* _send_email when the RFP has no suppliers
SendWithoutSuppliers(st) ==
    [st EXCEPT !.email_sent = FALSE, !.status = <<"No suppliers specified. RFP not sent.">>]

\* _send_email, given what send_to_suppliers did
SendEmail(st, r) ==
    [st EXCEPT !.email_sent = r.success,
               !.status = IF r.success THEN <<"RFP sent to suppliers">>
                          ELSE <<"Failed to send RFP to suppliers">>]

\* _handle_error
HandleError(st) ==
    [st EXCEPT !.status = <<"Workflow failed: ", IF st.error = None THEN None ELSE Val(st.error)>>]

\* execute: the state returned when compiling or running the graph raises
ExecuteFailed(msg) ==
    Failed(initial_state, <<"Workflow execution error: ", msg>>, <<"Workflow execution failed">>)

(***************************************************************************)
(* What the external parties may do (workflow).                            *)
(***************************************************************************)
Categories == PROCUREMENT_CATEGORIES \cup {"Furniture"}

Classifications ==
    {[kind |-> "raise", error |-> "classifier unavailable", keys |-> {}, category |-> "",
      confidence |-> "", reasoning |-> ""]}
    \cup
    {[kind |-> "json", error |-> "", keys |-> ClassificationKeys, category |-> c,
      confidence |-> "0.95", reasoning |-> "matches the category"] : c \in Categories}
    \cup
    {[kind |-> "json", error |-> "", keys |-> {"category", "reasoning"}, category |-> "Software",
      confidence |-> "", reasoning |-> "matches the category"]}

TextTBD ==
    <<"T", "B", "D">>
TextRequirements ==
    <<"R", "e", "q", "u", "i", "r", "e", "m", "e", "n", "t", "s", ":", " ", "T", "B", "D">>

\* a draft that fills every key, with the given budget and requirements texts
FullDraft(budget, requirements) ==
    [k \in TemplateKeys |->
        CASE k = "budget" -> budget
          [] k = "requirements" -> requirements
          [] OTHER -> TextTBD]

\* the draft d cut down to the keys K
Restricted(d, K) == [k \in K |-> d[k]]

DraftJsons ==
    {FullDraft(b, r) : b \in {MoneySmall, MoneyLarge}, r \in {TextTBD, TextRequirements}}
    \cup {Restricted(FullDraft(MoneySmall, TextTBD), K) : K \in {{"project_overview", "budget"}, {}}}

Drafts ==
    {[kind |-> "raise", error |-> "drafter unavailable", json |-> <<>>]}
    \cup {[kind |-> "json", error |-> "", json |-> j] : j \in DraftJsons}

(***************************************************************************)
(* The drafting step as a function of the category and of the keys the     *)
(* drafter returns: one generate_rfp call for any category and any draft   *)
(* of GenerateDrafts.  lastCall.before holds the arguments of the call.    *)
(***************************************************************************)
\* drafts holding any subset of the ten template keys, a draft whose values
\* are all empty, and a drafter that raises
GenerateDrafts ==
    {[kind |-> "raise", error |-> "drafter unavailable", json |-> <<>>]}
    \cup {[kind |-> "json", error |-> "", json |-> Restricted(FullDraft(MoneySmall, TextRequirements), K)] :
             K \in SUBSET TemplateKeys}
    \cup {[kind |-> "json", error |-> "", json |-> [k \in TemplateKeys |-> <<>>]]}

GenerateInit ==
    /\ pc = "idle"
    /\ state = None
    /\ request = [id |-> Some("req-1")]
    /\ rfp = None
    /\ trace = <<>>
    /\ invoked = <<>>
    /\ tentative = None
    /\ lastCall = NoCall
    /\ deliveries = <<>>
    /\ clock = 0

\* a generate_rfp call for the category and the draft
GenerateCalled(category, draft, r) ==
    /\ rfp' = r.rfp
    /\ lastCall' = [ op |-> "generate_rfp", raised |-> r.raised, success |-> FALSE,
                     result |-> None, before |-> Some([category |-> category, draft |-> draft]) ]

CallGenerate ==
    /\ lastCall = NoCall
    /\ \E category \in Categories, draft \in GenerateDrafts :
          GenerateCalled(category, draft,
                         generate_rfp(request,
                                      [ request_id |-> Val(request.id), category |-> category,
                                        confidence |-> "0.95", reasoning |-> "matches the category" ],
                                      draft))
    /\ UNCHANGED <<pc, state, request, trace, invoked, tentative, deliveries, clock>>

SpecGenerate == GenerateInit /\ [][CallGenerate]_vars

(***************************************************************************)
(* ProcurementWorkflow.execute as a state machine: pc is "compile" before  *)
(* the graph is compiled and invoked, then the node about to run, then END *)
(* when execute returns `state`.                                           *)
(***************************************************************************)
Init ==
    /\ pc = "compile"
    /\ state = initial_state
    /\ request \in {[id |-> None], [id |-> Some("req-1")]}
    /\ rfp = None
    /\ trace = <<>>
    /\ invoked = <<>>
    /\ tentative = None
    /\ lastCall = NoCall
    /\ deliveries = <<>>
    /\ clock = 0

\* a call of an agent, and whether it failed (raised, or returned False)
Call(agent, failed) == <<[agent |-> agent, failed |-> failed]>>

\* the node at pc ran (with the agent call `called`, if any) and returned st
NodeRan(st, called) ==
    /\ state' = st
    /\ trace' = Append(trace, [node |-> pc, error |-> state.error])
    /\ invoked' = invoked \o called
    /\ pc' = Successor(pc, st)

\* self.graph.compile() and workflow.ainvoke(initial_state) start the run
Compile ==
    /\ pc = "compile"
    /\ pc' = EntryPoint
    /\ UNCHANGED <<state, request, rfp, trace, invoked, tentative, lastCall, deliveries, clock>>

\* ... or raise, and execute returns the failed initial state
CompileRaises ==
    /\ pc = "compile"
    /\ pc' = END
    /\ state' = ExecuteFailed("graph error")
    /\ invoked' = invoked \o Call("graph", TRUE)
    /\ UNCHANGED <<request, rfp, trace, tentative, lastCall, deliveries, clock>>

Classified(r) ==
    /\ request' = r.request
    /\ NodeRan(ClassifyRequest(state, r), Call("classification_agent", r.raised))

ClassifyNode ==
    /\ pc = CLASSIFY
    /\ \E answer \in Classifications : Classified(classify(request, answer))
    /\ UNCHANGED <<rfp, tentative, lastCall, deliveries, clock>>

Generated(r) ==
    /\ rfp' = r.rfp
    /\ NodeRan(GenerateRfp(state, r), Call("rfp_generation_agent", r.raised))

GenerateRfpNode ==
    /\ pc = GENERATE_RFP
    /\ IF state.classification = None
       THEN /\ NodeRan(GenerateWithoutClassification(state), <<>>)
            /\ UNCHANGED rfp
       ELSE \E draft \in Drafts :
                Generated(generate_rfp(request, Val(state.classification), draft))
    /\ UNCHANGED <<request, tentative, lastCall, deliveries, clock>>

Approved(r) ==
    /\ ValidateCalled(r)
    /\ NodeRan(ApproveRfp(state, r), Call("approval_agent", r.raised))

ApproveRfpNode ==
    /\ pc = APPROVE_RFP
    /\ IF state.rfp = None
       THEN /\ NodeRan(ApproveWithoutRfp(state), <<>>)
            /\ UNCHANGED <<rfp, tentative, lastCall, clock>>
       ELSE /\ \E review \in Reviews : Approved(validate_rfp(Val(rfp), review, clock + 1))
            /\ clock' = clock + 1
    /\ UNCHANGED <<request, deliveries>>

Sent(r) ==
    /\ SendCalled(r)
    /\ NodeRan(SendEmail(state, r), Call("email_service", ~r.success))

SendEmailNode ==
    /\ pc = SEND_EMAIL
    /\ IF state.rfp = None
       THEN /\ NodeRan(SendWithoutRfp(state), <<>>)
            /\ UNCHANGED <<rfp, lastCall, deliveries, clock>>
       ELSE IF Val(rfp).suppliers = <<>>
       THEN /\ NodeRan(SendWithoutSuppliers(state), <<>>)
            /\ UNCHANGED <<rfp, lastCall, deliveries, clock>>
       ELSE /\ \E outcomes \in [1..Len(Val(rfp).suppliers) -> DeliveryOutcomes] :
                  Sent(send_to_suppliers(Val(rfp), outcomes, clock + 1))
            /\ clock' = clock + 1
    /\ UNCHANGED <<request, tentative>>

Next == Compile \/ CompileRaises \/ ClassifyNode \/ GenerateRfpNode \/ ApproveRfpNode \/ SendEmailNode

Spec == Init /\ [][Next]_vars

(***************************************************************************)
(* Properties of ProcurementWorkflow.execute (specification Spec).         *)
(***************************************************************************)
HappyPathAfterClassify == {GENERATE_RFP, APPROVE_RFP, SEND_EMAIL}

\* some call of `agent` failed in this run
CallFailed(agent) == \E i \in 1..Len(invoked) : invoked[i].agent = agent /\ invoked[i].failed

\* C1: once a step has set `error`, no later happy-path node (GENERATE_RFP,
\* APPROVE_RFP, SEND_EMAIL) is executed: every such node that ran found
\* `error` unset when it started.
C1_NoHappyPathNodeAfterError ==
    \A i \in 1..Len(trace) : trace[i].node \in HappyPathAfterClassify => trace[i].error = None

\* C2: if the classification agent fails during execute, the final state has
\* no rfp, no approval and no classification, and its error is set.
C2_ClassificationFailureLeavesNothing ==
    (pc = END /\ CallFailed("classification_agent")) =>
        /\ state.rfp = None
        /\ state.approval = None
        /\ state.classification = None
        /\ state.error # None

\* execute returned after the classification agent failed, the later nodes having run
C2_ClassificationFailed ==
    /\ pc = END
    /\ CallFailed("classification_agent")
    /\ Len(trace) = 3

StateKeys == {"request", "classification", "rfp", "approval", "email_sent", "error", "status"}

FailureStatuses ==
    { <<"Error during classification">>, <<"Error: Classification failed">>,
      <<"Error during RFP generation">>, <<"Error: No RFP to validate">>,
      <<"Error during RFP approval">>, <<"Error during email sending">>,
      <<"Workflow execution failed">> }

\* C6: execute always returns a final state record and never raises: a run
\* is compiling, at a node whose handler returns a state, or has returned;
\* what it returns is a state with all its keys, and after a failure of an
\* agent, of the delivery or of the graph run the returned state has `error`
\* set and a failure status.
C6_ExecuteReturnsState ==
    /\ pc \in {"compile", CLASSIFY, GENERATE_RFP, APPROVE_RFP, SEND_EMAIL, END}
    /\ pc = END =>
        /\ DOMAIN state = StateKeys
        /\ (\E i \in 1..Len(invoked) : invoked[i].failed) =>
               (state.error # None /\ state.status \in FailureStatuses)

\* execute returned after validate_rfp raised
C6_ApprovalAgentFailed == pc = END /\ CallFailed("approval_agent")

\* C7: when the final verdict is a rejection, the workflow ends without
\* running SEND_EMAIL: no delivery is attempted, email_sent is false, error
\* is unset and the status is "RFP rejected: " followed by the feedback.
C7_RejectionEndsWithoutSending ==
    (pc = END /\ state.approval # None /\ ~Val(state.approval).approved) =>
        /\ \A i \in 1..Len(trace) : trace[i].node # SEND_EMAIL
        /\ \A i \in 1..Len(invoked) : invoked[i].agent # "email_service"
        /\ deliveries = <<>>
        /\ state.email_sent = FALSE
        /\ state.error = None
        /\ state.status = <<"RFP rejected: ", Val(state.approval).feedback>>

\* execute returned a rejection that a guardrail made of the model's approval
C7_RejectedByGuardrail ==
    /\ pc = END
    /\ state.approval # None
    /\ ~Val(state.approval).approved
    /\ Val(tentative).approved

(***************************************************************************)
(* Properties of the approval agent (specifications SpecGuard, SpecAgent). *)
(***************************************************************************)
\* the last call was a validate_rfp that returned its ApprovalResult
ValidateReturned == lastCall.op = "validate_rfp" /\ ~lastCall.raised

\* C3: guardrails only tighten the verdict: when validate_rfp returns
\* approved=true, the model's verdict was approved=true.
C3_GuardrailsOnlyTighten ==
    (ValidateReturned /\ Val(lastCall.result).approved) => Val(tentative).approved

\* validate_rfp returned approved=true
C3_ReturnedApproved == ValidateReturned /\ Val(lastCall.result).approved

MissingSectionText == "Missing essential section: "
SectionTitles == <<SecOverview, SecRequirements, SecTimeline, SecBudget>>

\* the case-insensitive substring test fails for the title
LacksSection(content, title) == ~Contains(LowerStr(content), LowerStr(title))

\* the titles the content lacks, in the order Overview, Requirements, Timeline, Budget
LackedTitles(content) == SelectSeq(SectionTitles, LAMBDA t : LacksSection(content, t))

\* the issues that report `titles` as missing, in that order
MissingSectionIssues(titles) ==
    [i \in 1..Len(titles) |-> [text |-> MissingSectionText, arg |-> titles[i]]]

\* C4: for a content lacking one or more of Overview, Requirements,
\* Timeline, Budget the verdict is approved=false, and the "Missing
\* essential section" issues are exactly one per lacking section, in the
\* order Overview, Requirements, Timeline, Budget.
C4_OneIssuePerMissingSection ==
    ValidateReturned =>
        /\ SelectSeq(Val(lastCall.result).issues, LAMBDA x : x.text = MissingSectionText)
              = MissingSectionIssues(LackedTitles(Val(lastCall.before).content))
        /\ LackedTitles(Val(lastCall.before).content) # <<>> => ~Val(lastCall.result).approved

\* validate_rfp returned for a content that lacks Overview and Timeline only,
\* which the model had approved
C4_TwoSectionsMissing ==
    /\ ValidateReturned
    /\ LackedTitles(Val(lastCall.before).content) = <<SecOverview, SecTimeline>>
    /\ Val(tentative).approved

ThresholdIssue ==
    [ text |-> "Budget exceeds maximum allowed threshold of $",
      arg |-> <<"1", ",", "0", "0", "0", ",", "0", "0", "0", ".", "0", "0">> ]

\* the number that pattern p captures at position i of s, None if it does
\* not match there or the capture is no number
FigureAt(p, s, i) ==
    IF MatchAt(p, s, i) = None THEN None
    ELSE ParseFloat(StripCommas(GroupText(s, MatchAt(p, s, i))))

\* some budget pattern matches, somewhere in s, a figure above cap
HasFigureAbove(s, cap) ==
    \E p \in 1..NumPatterns, i \in 1..Len(s) :
        FigureAt(p, s, i) # None /\ GreaterThan(Val(FigureAt(p, s, i)), cap)

\* C5 (as stated): for a content containing a monetary figure above
\* MAX_BUDGET the verdict is approved=false and an issue naming the
\* threshold is among the issues.
C5_AnyFigureAboveMaxRejected ==
    (ValidateReturned /\ HasFigureAbove(LowerStr(Val(lastCall.before).content), MAX_BUDGET)) =>
        /\ ~Val(lastCall.result).approved
        /\ \E i \in 1..Len(Val(lastCall.result).issues) :
              Val(lastCall.result).issues[i] = ThresholdIssue

\* C5 (amended): when the extracted budget (the first match of the first
\* pattern, in priority order, whose first match is a number) is above
\* MAX_BUDGET, the verdict is approved=false whatever the model said and the
\* threshold issue is appended right after the model's issues; otherwise no
\* threshold issue is added.
C5_ExtractedBudgetAboveMaxRejected ==
    ValidateReturned =>
        IF GreaterThan(_extract_budget(Val(lastCall.before).content), MAX_BUDGET)
        THEN /\ ~Val(lastCall.result).approved
             /\ Len(Val(lastCall.result).issues) > Len(Val(tentative).issues)
             /\ Val(lastCall.result).issues[Len(Val(tentative).issues) + 1] = ThresholdIssue
        ELSE \A i \in 1..Len(Val(lastCall.result).issues) :
                 Val(lastCall.result).issues[i] # ThresholdIssue

\* validate_rfp returned for a complete content with an extracted budget above
\* MAX_BUDGET, which the model had approved
C5_OverBudgetApprovedByModel ==
    /\ ValidateReturned
    /\ GreaterThan(_extract_budget(Val(lastCall.before).content), MAX_BUDGET)
    /\ LackedTitles(Val(lastCall.before).content) = <<>>
    /\ Val(tentative).approved

\* the place of a status in DRAFT, PENDING_APPROVAL, {APPROVED | REJECTED}, SENT
StatusRank(status) ==
    CASE status = DRAFT -> 0
      [] status = PENDING_APPROVAL -> 1
      [] status \in {APPROVED, REJECTED} -> 2
      [] status = SENT -> 3
      [] status = CANCELLED -> 4

\* a status change that does not go back
MovesForward(old, new) ==
    /\ StatusRank(old) <= StatusRank(new)
    /\ ~(old = REJECTED /\ new = APPROVED)

\* C8: over any sequence of validate_rfp and send_to_suppliers calls the RFP
\* status only moves forward along DRAFT, PENDING_APPROVAL,
\* {APPROVED | REJECTED}, SENT: no step takes it to an earlier status, nor
\* from REJECTED to APPROVED.
C8_StatusOnlyMovesForward == [][MovesForward(Val(rfp).status, Val(rfp').status)]_vars

\* C9: after validate_rfp returns, the RFP is APPROVED with approval_date
\* set if and only if the returned verdict is approved=true, it is REJECTED
\* otherwise, and its approval_feedback is the feedback of the returned
\* ApprovalResult.
C9_StatusFollowsVerdict ==
    ValidateReturned =>
        /\ (Val(rfp).status = APPROVED /\ Val(rfp).approval_date # None)
              <=> Val(lastCall.result).approved
        /\ Val(lastCall.result).approved => Val(rfp).approval_date = Some(clock)
        /\ ~Val(lastCall.result).approved => Val(rfp).status = REJECTED
        /\ Val(rfp).approval_feedback = Some(Val(lastCall.result).feedback)

\* validate_rfp returned a rejection for an RFP that an earlier call had approved
C9_RejectedAfterApproval ==
    /\ ValidateReturned
    /\ ~Val(lastCall.result).approved
    /\ Val(lastCall.before).status = APPROVED

\* C10: send_to_suppliers on an RFP whose status is not APPROVED returns
\* failure, attempts no delivery and leaves the RFP (its status and
\* sent_date included) unchanged.
C10_SendNeedsApproved ==
    [][ (clock' = clock + 1 /\ lastCall'.op = "send_to_suppliers"
            /\ Val(rfp).status # APPROVED)
        => (~lastCall'.success /\ deliveries' = deliveries /\ rfp' = rfp) ]_vars

\* send_to_suppliers was called again on an RFP already SENT to its suppliers
C10_SecondSendAfterSent ==
    /\ lastCall.op = "send_to_suppliers"
    /\ Val(lastCall.before).status = SENT
    /\ Val(lastCall.before).suppliers # <<>>
    /\ Len(deliveries) = Len(Val(rfp).suppliers)

(***************************************************************************)
(* Properties of delivery (specification SpecAgent).                       *)
(***************************************************************************)
\* this step is a send_to_suppliers call on an APPROVED RFP that has suppliers
SendsApproved ==
    /\ clock' = clock + 1
    /\ lastCall'.op = "send_to_suppliers"
    /\ Val(rfp).status = APPROVED
    /\ Val(rfp).suppliers # <<>>

\* the delivery attempts this step made
NewAttempts == SubSeq(deliveries', Len(deliveries) + 1, Len(deliveries'))

\* C11: for a non-empty supplier list send_rfp attempts delivery to each
\* supplier exactly once, in list order, whatever the outcome of the earlier
\* attempts, and the overall success is the AND of the per-supplier outcomes.
C11_EachSupplierOnceInOrder ==
    [][ SendsApproved =>
          /\ Len(NewAttempts) = Len(Val(rfp).suppliers)
          /\ \A i \in 1..Len(NewAttempts) : NewAttempts[i].to = Val(rfp).suppliers[i]
          /\ lastCall'.success <=> \A i \in 1..Len(NewAttempts) : NewAttempts[i].outcome = "sent"
      ]_vars

\* send_rfp went on to the second supplier after the attempt for the first raised
C11_SecondAttemptAfterFailure ==
    /\ lastCall.op = "send_to_suppliers"
    /\ Len(deliveries) = 2
    /\ deliveries[1].outcome = "raise"
    /\ deliveries[2].outcome = "sent"
    /\ deliveries[1].to # deliveries[2].to
    /\ ~lastCall.success

\* what the workflow's delivery step returns when send_to_suppliers returned `success`
DeliveryStepReport(success) == SendEmail(initial_state, [success |-> success])

C13_GuardrailIssuesAppended ==
    ValidateReturned =>
        Val(lastCall.result).issues
            = Val(tentative).issues
                \o (IF GreaterThan(_extract_budget(Val(lastCall.before).content), MAX_BUDGET)
                    THEN <<ThresholdIssue>> ELSE <<>>)
                \o MissingSectionIssues(LackedTitles(Val(lastCall.before).content))

\* validate_rfp returned the model's issue followed by a threshold issue and
\* a missing-section issue
C13_ModelIssueThenBoth ==
    /\ ValidateReturned
    /\ Val(tentative).issues # <<>>
    /\ Len(Val(lastCall.result).issues) = Len(Val(tentative).issues) + 2
    /\ Val(lastCall.result).issues[Len(Val(tentative).issues) + 1] = ThresholdIssue

\* the guardrail stage run once more on the result validate_rfp returned
GuardrailsAgain == _apply_guardrails(Val(lastCall.before), Val(lastCall.result))

\* the set of the issues of a list
IssueSet(issues) == {issues[i] : i \in 1..Len(issues)}

\* two results with the same verdict and the same set of issues
SameVerdictAndIssueSet(a, b) ==
    /\ a.approved = b.approved
    /\ IssueSet(a.issues) = IssueSet(b.issues)

\* C14: running the guardrail stage again on an already rejected result,
\* with the same content, gives the same verdict and the same set of issues.
C14_GuardrailsIdempotentOnIssueSet ==
    (ValidateReturned /\ ~Val(lastCall.result).approved) =>
        SameVerdictAndIssueSet(GuardrailsAgain, Val(lastCall.result))

\* a result that the guardrails rejected against the model's approval, on
\* which a second run appends the same guardrail issues again
C14_RejectedByGuardrailRunAgain ==
    /\ ValidateReturned
    /\ ~Val(lastCall.result).approved
    /\ Val(tentative).approved
    /\ Len(GuardrailsAgain.issues) > Len(Val(lastCall.result).issues)

\* a = b for two fractions, by whole part and fraction part
EqualAmounts(a, b) ==
    /\ a.num \div a.den = b.num \div b.den
    /\ (a.num % a.den) * b.den = (b.num % b.den) * a.den

\* the budget patterns that match somewhere in s
MatchingPatterns(s) == {p \in 1..NumPatterns : \E i \in 1..Len(s) : MatchAt(p, s, i) # None}

\* the number in the first occurrence of pattern p in s, None if it is no number
FirstFigure(p, s) == FigureAt(p, s, MinOf({i \in 1..Len(s) : MatchAt(p, s, i) # None}))

\* the matching patterns whose first occurrence is a number
NumberPatterns(s) == {p \in MatchingPatterns(s) : FirstFigure(p, s) # None}

\* the first occurrence of the first of the patterns P, 0 if there is none
\* or if it is no number
FigureOfFirst(P, s) ==
    IF P = {} \/ FirstFigure(MinOf(P), s) = None THEN Number(0)
    ELSE Val(FirstFigure(MinOf(P), s))

\* C15 (as stated): the extracted budget is the first occurrence, commas
\* stripped, of the first pattern in priority order that matches the
\* content, and 0 when no pattern matches, in which case no threshold issue
\* is added.
C15_FirstMatchingPatternDecides ==
    ValidateReturned =>
        /\ EqualAmounts(_extract_budget(Val(lastCall.before).content),
                      FigureOfFirst(MatchingPatterns(LowerStr(Val(lastCall.before).content)),
                                    LowerStr(Val(lastCall.before).content)))
        /\ MatchingPatterns(LowerStr(Val(lastCall.before).content)) = {} =>
               \A i \in 1..Len(Val(lastCall.result).issues) :
                   Val(lastCall.result).issues[i] # ThresholdIssue

\* the budget is the first occurrence of the first of the patterns P in s,
\* and without such a pattern it is 0 and the issues hold no threshold issue
DecidedByFirstOf(P, s, budget, issues) ==
    /\ EqualAmounts(budget, FigureOfFirst(P, s))
    /\ P = {} => \A i \in 1..Len(issues) : issues[i] # ThresholdIssue

\* C15 (amended): the extracted budget is the first occurrence, commas
\* stripped, of the first pattern in priority order whose first occurrence
\* is a number (a pattern whose first occurrence holds only commas is passed
\* over), and 0 when there is no such pattern, in which case no threshold
\* issue is added; a content with only "$1,250,000.50" gives 1250000.50.
C15_FirstNumberPatternDecides ==
    ValidateReturned =>
        /\ DecidedByFirstOf(NumberPatterns(LowerStr(Val(lastCall.before).content)),
                            LowerStr(Val(lastCall.before).content),
                            _extract_budget(Val(lastCall.before).content),
                            Val(lastCall.result).issues)
        /\ Val(lastCall.before).content = HeadBudget \o MoneyLarge =>
               EqualAmounts(_extract_budget(Val(lastCall.before).content),
                          [num |-> 125000050, den |-> 100])

\* validate_rfp returned for a content in which "$N" and "N dollars" both
\* occur with different amounts, the "N dollars" one first
C15_TwoPatternsMatch ==
    /\ ValidateReturned
    /\ Val(lastCall.before).content = MoneyDollars \o MoneySmall
    /\ NumberPatterns(LowerStr(Val(lastCall.before).content)) = {1, 2}
    /\ EqualAmounts(_extract_budget(Val(lastCall.before).content), Number(500))

(***************************************************************************)
(* Properties of the graph (specification Spec).                           *)
(***************************************************************************)
\* the node has run in this execution
HasRun(node) == \E i \in 1..Len(trace) : trace[i].node = node

\* C16: SEND_EMAIL is executed if and only if the state after APPROVE_RFP
\* holds an approval with approved=true; with no approval or approved=false
\* the run ends after APPROVE_RFP.  Before that there is no branch: CLASSIFY
\* is followed by GENERATE_RFP and GENERATE_RFP by APPROVE_RFP.
C16_SendOnlyAfterApproval ==
    /\ (pc = SEND_EMAIL \/ HasRun(SEND_EMAIL)) => HasRun(APPROVE_RFP)
    /\ HasRun(APPROVE_RFP) =>
          IF state.approval # None /\ Val(state.approval).approved
          THEN pc = SEND_EMAIL \/ HasRun(SEND_EMAIL)
          ELSE pc = END /\ ~HasRun(SEND_EMAIL)
    /\ Len(trace) = 1 => pc = GENERATE_RFP
    /\ Len(trace) = 2 => pc = APPROVE_RFP

\* APPROVE_RFP ran and left no approval (validate_rfp raised), and the run ended
C16_EndedWithoutApproval ==
    /\ HasRun(APPROVE_RFP)
    /\ state.approval = None
    /\ state.rfp # None
    /\ pc = END

\* C17: when GENERATE_RFP finds no classification in its state, the
\* drafting agent is not invoked, the step records the error "No
\* classification result available", and rfp stays absent.
C17_GenerationNeedsClassification ==
    (HasRun(GENERATE_RFP) /\ state.classification = None) =>
        /\ \A i \in 1..Len(invoked) : invoked[i].agent # "rfp_generation_agent"
        /\ state.rfp = None
        /\ rfp = None
        /\ pc = APPROVE_RFP => state.error = Some(<<"No classification result available">>)

\* GENERATE_RFP has just run on a state without classification
C17_GeneratedWithoutClassification ==
    /\ pc = APPROVE_RFP
    /\ state.classification = None
    /\ CallFailed("classification_agent")

\* C19: a failure in any step is reported in the final state with the
\* status "Workflow failed: " followed by the recorded error.
C19_FailureReportedAsWorkflowFailed ==
    (pc = END /\ \E i \in 1..Len(invoked) : invoked[i].agent # "graph" /\ invoked[i].failed) =>
        /\ Len(state.status) = 2
        /\ state.status[1] = "Workflow failed: "
        /\ state.status[2] = Val(state.error)

\* C20: a node does not change anything reachable from the snapshot it
\* received: the request (its id included) and, if the snapshot holds one,
\* the RFP (its status and approval_feedback included) are after the step
\* what they were before.
C20_NodesLeaveSnapshotObjectsAlone ==
    [][ (pc \in Nodes) => (request' = request /\ (state.rfp # None => rfp' = rfp)) ]_vars

NodeOrder == <<CLASSIFY, GENERATE_RFP, APPROVE_RFP, SEND_EMAIL>>

\* C18: no retries: in one execution the nodes run in the order CLASSIFY,
\* GENERATE_RFP, APPROVE_RFP, SEND_EMAIL, each at most once, and each agent
\* is invoked at most once; the node about to run is always the one after
\* those that ran, so every step moves on in that order and the execution
\* has ended once four nodes have run.
C18_NoRetriesAndTermination ==
    /\ Len(trace) <= Len(NodeOrder)
    /\ \A i \in 1..Len(trace) : trace[i].node = NodeOrder[i]
    /\ \A i, j \in 1..Len(invoked) : invoked[i].agent = invoked[j].agent => i = j
    /\ pc = "compile" => trace = <<>>
    /\ pc \in Nodes => (Len(trace) < Len(NodeOrder) /\ pc = NodeOrder[Len(trace) + 1])
    /\ Len(trace) = Len(NodeOrder) => pc = END

\* the execution ended after all four nodes ran, three of them calling their agent
C18_AllFourNodesRan ==
    /\ pc = END
    /\ Len(trace) = 4
    /\ Len(invoked) = 3

DrafterReturned == lastCall.op = "generate_rfp" /\ Val(lastCall.before).draft.kind = "json"

\* the value of a template field: what the drafter gave, the empty string if it gave none
DraftedValue(json, field) == IF field \in DOMAIN json THEN json[field] ELSE <<>>

\* the template's literal pieces with the drafted value after each placeholder
Rendered(template, json) ==
    Flatten([i \in 1..Len(template) |->
                template[i].lit
                    \o (IF template[i].field = "" THEN <<>> ELSE DraftedValue(json, template[i].field))])

\* the template of a configured category, the Services template for any other
ExpectedTemplate(category) ==
    IF category = "Software" THEN TemplateSoftware
    ELSE IF category = "Hardware" THEN TemplateHardware
    ELSE IF category = "Raw Materials" THEN TemplateRawMaterials
    ELSE TemplateServices

\* C22: for every category (known or unknown) and every subset of the ten
\* template fields returned by the drafter, generate_rfp does not raise and
\* produces an RFP (PENDING_APPROVAL, of that category) whose content is
\* the category's template, or the Services template for an unknown
\* category, with each omitted field rendered as the empty string.
C22_RenderingAlwaysProducesRfp ==
    DrafterReturned =>
        /\ ~lastCall.raised
        /\ rfp # None
        /\ Val(rfp).category = Val(lastCall.before).category
        /\ Val(rfp).status = PENDING_APPROVAL
        /\ Val(rfp).content = Rendered(ExpectedTemplate(Val(lastCall.before).category),
                                       Val(lastCall.before).draft.json)

\* an RFP produced for an unknown category from a draft that holds only the
\* keys quantity and sla, neither of them the whole of a template's fields
C22_UnknownCategoryPartialDraft ==
    /\ DrafterReturned
    /\ Val(lastCall.before).category \notin PROCUREMENT_CATEGORIES
    /\ DOMAIN Val(lastCall.before).draft.json = {"quantity", "sla"}
    /\ rfp # None

(***************************************************************************)
(* Properties of delivery inside execute (specification Spec).             *)
(***************************************************************************)
\* C23: inside execute an approved RFP is never delivered: the RFP has no
\* suppliers at any point, SEND_EMAIL makes no send_to_suppliers call and
\* no transport attempt and reports "No suppliers specified. RFP not sent.",
\* email_sent is false in every state and the RFP status is never SENT.
C23_NeverDeliveredInsideExecute ==
    /\ deliveries = <<>>
    /\ \A i \in 1..Len(invoked) : invoked[i].agent # "email_service"
    /\ lastCall.op # "send_to_suppliers"
    /\ state.email_sent = FALSE
    /\ rfp # None => (Val(rfp).suppliers = <<>> /\ Val(rfp).status # SENT)
    /\ HasRun(SEND_EMAIL) => state.status = <<"No suppliers specified. RFP not sent.">>

\* execute returned after SEND_EMAIL ran on an RFP that the approval step approved
C23_SendEmailRanOnApprovedRfp ==
    /\ pc = END
    /\ HasRun(SEND_EMAIL)
    /\ Val(state.approval).approved
    /\ Val(rfp).status = APPROVED

(***************************************************************************)
(* Properties of the error field and of the artifacts (specification Spec).*)
(***************************************************************************)
\* C24: the error field is written once in an execution: a step that starts
\* from a state whose error is set leaves error (and the status of that
\* failure) as it found them, so the final state still names the first
\* failure.
C24_ErrorWrittenOnce ==
    [][ (state.error # None) => (state'.error = state.error /\ state'.status = state.status) ]_vars

(***************************************************************************)
(* Properties of the guardrail stage, continued (specification SpecGuard). *)
(***************************************************************************)
\* the guardrail stage returned the model's verdict and issue list as they were
GuardrailsChangedNothing ==
    /\ Val(lastCall.result).approved = Val(tentative).approved
    /\ Val(lastCall.result).issues = Val(tentative).issues

\* C25: the guardrail stage leaves the model's verdict and issue list
\* exactly unchanged if and only if the extracted budget is at most
\* MAX_BUDGET and none of the four section names is lacking from the
\* content (case-insensitively); a budget equal to MAX_BUDGET causes no
\* rejection.
C25_UnchangedIffWithinLimits ==
    ValidateReturned =>
        IF LackedTitles(Val(lastCall.before).content) = <<>>
        THEN /\ GuardrailsChangedNothing
                  <=> ~GreaterThan(_extract_budget(Val(lastCall.before).content), MAX_BUDGET)
             /\ EqualAmounts(_extract_budget(Val(lastCall.before).content), Number(MAX_BUDGET))
                  => GuardrailsChangedNothing
        ELSE ~GuardrailsChangedNothing

\* the model approved a complete content whose budget is exactly MAX_BUDGET,
\* and validate_rfp returned the approval
C25_ApprovedAtExactlyMax ==
    /\ ValidateReturned
    /\ Val(lastCall.before).content = Headings(SectionNames) \o MoneyAtCap
    /\ EqualAmounts(_extract_budget(Val(lastCall.before).content), Number(MAX_BUDGET))
    /\ Val(tentative).approved
    /\ Val(lastCall.result).approved

(***************************************************************************)
(* Properties of the templates (specification SpecGenerate).               *)
(***************************************************************************)
\* C26: an RFP rendered from the template of one of the four configured
\* categories contains all four essential section names, whatever the
\* drafted field values are (all of them empty included): the
\* missing-section loop of the guardrails finds no section missing in it.
C26_TemplatesHoldAllSections ==
    (DrafterReturned /\ Val(lastCall.before).category \in PROCUREMENT_CATEGORIES) =>
        /\ MissingSections(Val(rfp).content) = <<>>
        /\ LackedTitles(Val(rfp).content) = <<>>

(***************************************************************************)
(* Properties of the approval step inside execute (specification Spec).    *)
(***************************************************************************)
\* C27: if the review call raises, or returns a response lacking
\* `approved` or `feedback`, during APPROVE_RFP, the RFP is left untouched
\* (status PENDING_APPROVAL, approval_feedback and approval_date unset),
\* approval stays absent, error is set (an "Approval error: ...") and the
\* workflow ends without running SEND_EMAIL.
C27_ReviewerFailureLeavesRfpUntouched ==
    CallFailed("approval_agent") =>
        /\ rfp = lastCall.before
        /\ Val(rfp).status = PENDING_APPROVAL
        /\ Val(rfp).approval_feedback = None
        /\ Val(rfp).approval_date = None
        /\ tentative = None
        /\ state.approval = None
        /\ state.error # None
        /\ Val(state.error)[1] = "Approval error: "
        /\ state.status = <<"Error during RFP approval">>
        /\ pc = END
        /\ ~HasRun(SEND_EMAIL)
        /\ deliveries = <<>>

\* execute returned after the review model answered without the key `feedback`
C27_ReviewLackedFeedback ==
    /\ pc = END
    /\ HasRun(APPROVE_RFP)
    /\ state.error = Some(<<"Approval error: ", "'feedback'">>)

\* C28: in every reachable workflow state the artifacts form a chain:
\* approval present implies rfp present, rfp present implies
\* classification present, and email_sent true implies an approval with
\* approved=true and no error; the last holds of every state in which the
\* delivery step, the only one that writes email_sent, is about to run or
\* has run.
C28_ArtifactsFormChain ==
    /\ state.approval # None => state.rfp # None
    /\ state.rfp # None => state.classification # None
    /\ state.rfp # None <=> rfp # None
    /\ (state.email_sent \/ pc = SEND_EMAIL \/ HasRun(SEND_EMAIL)) =>
          (state.approval # None /\ Val(state.approval).approved /\ state.error = None)

\* the delivery step ran on a state that holds all three artifacts and no error
C28_WholeChainPresent ==
    /\ HasRun(SEND_EMAIL)
    /\ state.classification # None
    /\ state.rfp # None
    /\ state.approval # None
    /\ state.error = None

(***************************************************************************)
(* Properties of the RFP life cycle (specification SpecAgent).             *)
(***************************************************************************)
\* this step is a validate_rfp call that returns a verdict
ReturnsVerdict == lastCall'.op = "validate_rfp" /\ ~lastCall'.raised /\ clock' = clock + 1

\* C29: over any sequence of validate_rfp and send_to_suppliers calls,
\* whenever the RFP status is SENT its sent_date and approval_date are both
\* set and the most recent validate_rfp verdict was approved=true, and an
\* RFP that was never approved never becomes SENT: SENT is entered only by
\* a successful send from APPROVED, APPROVED only by a verdict approved=true
\* (which stamps approval_date), and every verdict sets the status anew.
C29_SentImpliesApprovedAndDated ==
    /\ [](Val(rfp).status = SENT =>
            /\ Val(rfp).sent_date # None
            /\ Val(rfp).approval_date # None
            /\ tentative # None => Val(tentative).approved)
    /\ [][ /\ Val(rfp').status = SENT =>
                 \/ Val(rfp).status = SENT /\ ~ReturnsVerdict
                 \/ /\ Val(rfp).status = APPROVED
                    /\ lastCall'.op = "send_to_suppliers"
                    /\ lastCall'.success
           /\ Val(rfp').status = APPROVED =>
                 \/ Val(rfp).status = APPROVED /\ ~ReturnsVerdict
                 \/ /\ ReturnsVerdict
                    /\ Val(lastCall'.result).approved
                    /\ Val(rfp').approval_date = Some(clock')
           /\ ReturnsVerdict =>
                 (Val(rfp').status = APPROVED <=> Val(lastCall'.result).approved)
       ]_vars

\* an RFP that was approved, on which a further validate_rfp raised, and
\* that was then sent to its two suppliers
C29_SentAfterApprovalAndFailedReview ==
    /\ Val(rfp).status = SENT
    /\ lastCall.op = "send_to_suppliers"
    /\ tentative = None
    /\ clock = 3
    /\ Len(deliveries) = 2

(***************************************************************************)
(* Frame of the workflow nodes (specification Spec).                       *)
(***************************************************************************)
\* the keys of the state record that a node writes
OwnKeys(node) ==
    CASE node = CLASSIFY -> {"classification", "status", "error"}
      [] node = GENERATE_RFP -> {"rfp", "status", "error"}
      [] node = APPROVE_RFP -> {"approval", "status", "error"}
      [] node = SEND_EMAIL -> {"email_sent", "status", "error"}
      [] OTHER -> {"status", "error"}

\* the node at pc returns a record with the same keys, those that are not
\* its own holding what they held
KeysCarriedOver ==
    /\ DOMAIN state' = DOMAIN state
    /\ \A k \in DOMAIN state \ OwnKeys(pc) : state'[k] = state[k]

====
